---- MODULE Spec2Model ----
(***************************************************************************)
(* Model of task_3.py: the weighted undirected Graph (defaultdict-backed   *)
(* adjacency, separate node set) and dijkstra() driven by a heapq          *)
(* priority queue with lazy deletion, plus the main() demo scenario.       *)
(*                                                                         *)
(* Representation                                                          *)
(*   - a dict is a function whose DOMAIN is its key set; the inner         *)
(*     neighbour dicts are sequences of <<neighbour, weight>> in insertion *)
(*     order, because dijkstra iterates them with .items();                *)
(*   - float('infinity') is the empty tuple, a finite distance d is <<d>>; *)
(*   - the heap is a sequence of <<distance, vertex>> entries; heappop     *)
(*     removes the least entry in Python tuple order.                      *)
(*                                                                         *)
(* Further specifications over the same variables model                    *)
(*   - SpecGraph:  the Graph class used alone (build and look up);         *)
(*   - SpecRepeat: task_3 with a caller that keeps the last result;        *)
(*   - SpecDP:     task_6.py dynamic_programming (0/1 knapsack);           *)
(*   - SpecMerge:  task_1.py LinkedList.merge_sorted_lists;                *)
(*   - SpecHeap:   task_4.py BinaryHeap.insert and node colouring.         *)
(* Each leaves the variables of the other programs at their initial value. *)
(***************************************************************************)
EXTENDS Integers, Sequences, FiniteSets, TLC

\* ------------------------------------------------------------------ bounds
\* Upper bound on the number of add_edge calls made by the modelled caller.
MaxEdgeCalls == 3

\* Upper bound on the add_edge calls of the caller that repeats its queries.
MaxRepeatEdgeCalls == 2

\* task_6: number of dishes, largest cost, largest calories, largest budget.
MaxItems == 3
MaxCost == 2
MaxCalories == 2
MaxBudget == 3

\* task_1: longest input list and largest element of the merged lists.
MaxListLen == 3
MaxValue == 3

\* task_4: largest number of insert calls and largest key.
MaxHeapLen == 5
MaxKey == 4

\* Vertex names used by main(); the free caller draws from InputVertices.
Vertices == {"A", "B", "C", "D", "E"}
InputVertices == {"A", "B", "C"}
\* Weights the free caller passes to add_edge (one of them negative).
Weights == {-1, 0, 2}

None == "None"

VARIABLES nodes, edges, numEdgeCalls,
          pc, start, distances, heap, visited,
          current, current_distance, todo, error, graph0, last

\* task_6.py, dynamic_programming: arguments, locals and position
VARIABLES food_items, budget, dp, dp_i, selected_items, total_cost,
          curr_budget, total_calories, dpPc

task6Vars == <<food_items, budget, dp, dp_i, selected_items, total_cost,
               curr_budget, total_calories, dpPc>>

\* task_1.py, LinkedList.merge_sorted_lists: the nodes (mem[k] is the Node with
\* identity k, 0 is None), the heads of list1, list2 and merged_list, the
\* locals, the object returned, the position; input1 and input2 keep the
\* elements the two lists had when the call started.
VARIABLES mem, head1, head2, merged_head, current1, current2, current_merged,
          result, mergePc, input1, input2

task1Vars == <<mem, head1, head2, merged_head, current1, current2,
               current_merged, result, mergePc, input1, input2>>

\* task_4.py, BinaryHeap: self.heap and self.heap_type; inserted counts the
\* insert calls made with each key.
VARIABLES bin_heap, heap_type, inserted

task4Vars == <<bin_heap, heap_type, inserted>>

otherTaskVars == <<task6Vars, task1Vars, task4Vars>>

vars == <<nodes, edges, numEdgeCalls, pc, start, distances, heap, visited,
          current, current_distance, todo, error, graph0, last, otherTaskVars>>

task3Vars == <<nodes, edges, numEdgeCalls, pc, start, distances, heap, visited,
               current, current_distance, todo, error, graph0, last>>

graphVars == <<nodes, edges, numEdgeCalls>>
localVars == <<start, distances, heap, visited, current, current_distance,
               todo, error, graph0>>

\* ------------------------------------------------------------ dict helpers
EmptyDict == [k \in {} |-> <<>>]

\* Python str comparison on the one-letter vertex names.
Rank(v) ==
  CASE v = "A" -> 1 [] v = "B" -> 2 [] v = "C" -> 3 [] v = "D" -> 4
    [] v = "E" -> 5

\* d[k] = val on an insertion-ordered dict of <<key, value>> items:
\* an existing key keeps its position, a new key goes last.
SetItem(d, k, val) ==
  IF \E i \in 1..Len(d) : d[i][1] = k
    THEN [i \in 1..Len(d) |-> IF d[i][1] = k THEN <<k, val>> ELSE d[i]]
    ELSE Append(d, <<k, val>>)

\* defaultdict(dict).__getitem__: a missing key is inserted with an empty dict.
DefaultGet(e, k) == IF k \in DOMAIN e THEN e ELSE e @@ (k :> <<>>)

\* ------------------------------------------------------------------- Graph
\* Mutant of add_edge: the reverse entry is forgotten.
add_edge_oneway(e, u, v, weight) ==
  LET e1 == DefaultGet(e, u)
  IN  [e1 EXCEPT ![u] = SetItem(e1[u], v, weight)]

\* Graph.add_edge: self.edges[u][v] = weight; self.edges[v][u] = weight
add_edge(e, u, v, weight) ==
  LET e1 == DefaultGet(e, u)
      e2 == [e1 EXCEPT ![u] = SetItem(e1[u], v, weight)]
      e3 == DefaultGet(e2, v)
  IN  [e3 EXCEPT ![v] = SetItem(e3[v], u, weight)]

\* Mutant of get_neighbors: the record is removed when it is read
\* (self.edges.pop(node, {})).
get_neighbors_pop(e, node) ==
  [edges |-> [x \in DOMAIN e \ {node} |-> e[x]],
   items |-> IF node \in DOMAIN e THEN e[node] ELSE <<>>]

\* Mutant of get_neighbors: the record is reset before it is returned
\* (self.edges[node] = {}; return self.edges[node]).
get_neighbors_reset(e, node) ==
  [edges |-> [x \in DOMAIN e \cup {node} |-> IF x = node THEN <<>> ELSE e[x]],
   items |-> <<>>]

\* Graph.get_neighbors: return self.edges[node]; the lookup may insert node.
get_neighbors(e, node) ==
  LET e1 == DefaultGet(e, node)
  IN  [edges |-> e1, items |-> e1[node]]

\* ------------------------------------------------------------------ floats
Infinity == <<>>
Fin(d) == <<d>>
\* distance < distances[neighbor], an int compared with a float
Less(d, x) == IF x = Infinity THEN TRUE ELSE d < x[1]

\* -------------------------------------------------------------------- heapq
\* Mutant of TupleLess: the order of a max-heap.
TupleLess_reversed(a, b) ==
  a[1] > b[1] \/ (a[1] = b[1] /\ Rank(a[2]) > Rank(b[2]))

\* Python tuple order on (distance, vertex)
TupleLess(a, b) == a[1] < b[1] \/ (a[1] = b[1] /\ Rank(a[2]) < Rank(b[2]))

heappush(h, item) == Append(h, item)

MinIndex(h) ==
  CHOOSE i \in 1..Len(h) :
    /\ \A j \in 1..Len(h) : ~TupleLess(h[j], h[i])
    /\ \A j \in 1..(i - 1) : TupleLess(h[i], h[j])

\* Mutant of heappop: the oldest entry is taken (heap.pop(0)).
heappop_first(h) == [item |-> Head(h), heap |-> Tail(h)]

\* heapq.heappop: the least entry, and the heap without it
heappop(h) ==
  LET i == MinIndex(h)
  IN  [item |-> h[i],
       heap |-> [j \in 1..(Len(h) - 1) |-> IF j < i THEN h[j] ELSE h[j + 1]]]

\* ---------------------------------------------------------------- dijkstra
\* No finished dijkstra call on the graph as it is now.
NoCall == [start |-> None, outcome |-> None, table |-> EmptyDict]

\* distances = {node: inf for node in graph.nodes}; distances[start] = 0
InitDistances(ns, s) ==
  [n \in ns \cup {s} |-> IF n = s THEN Fin(0) ELSE Infinity]

\* The other programs of the repository are not running.
Task6Off ==
  /\ food_items = <<>>
  /\ budget = 0
  /\ dp = <<>>
  /\ dp_i = 0
  /\ selected_items = <<>>
  /\ total_cost = 0
  /\ curr_budget = 0
  /\ total_calories = 0
  /\ dpPc = "off"

Task1Off ==
  /\ mem = <<>>
  /\ head1 = 0
  /\ head2 = 0
  /\ merged_head = 0
  /\ current1 = 0
  /\ current2 = 0
  /\ current_merged = 0
  /\ result = None
  /\ mergePc = "off"
  /\ input1 = <<>>
  /\ input2 = <<>>

Task4Off ==
  /\ bin_heap = <<>>
  /\ heap_type = "off"
  /\ inserted = <<>>

Task3Init ==
  /\ nodes = {}
  /\ edges = EmptyDict
  /\ numEdgeCalls = 0
  /\ pc = "idle"
  /\ start = None
  /\ distances = EmptyDict
  /\ heap = <<>>
  /\ visited = {}
  /\ current = None
  /\ current_distance = 0
  /\ todo = <<>>
  /\ error = None
  /\ graph0 = [nodes |-> {}, edges |-> EmptyDict]
  /\ last = NoCall

Init == Task3Init /\ Task6Off /\ Task1Off /\ Task4Off

\* Graph.add_node
AddNode(n) ==
  /\ pc = "idle"
  /\ nodes' = nodes \cup {n}
  /\ last' = NoCall
  /\ UNCHANGED <<edges, numEdgeCalls, pc, localVars>>
  /\ UNCHANGED otherTaskVars

\* Graph.add_edge
AddEdge(u, v, w) ==
  /\ pc = "idle"
  /\ numEdgeCalls < MaxEdgeCalls
  /\ edges' = add_edge(edges, u, v, w)
  /\ numEdgeCalls' = numEdgeCalls + 1
  /\ last' = NoCall
  /\ UNCHANGED <<nodes, pc, localVars>>
  /\ UNCHANGED otherTaskVars

\* Entry of dijkstra(graph, s): lines 51-56, on the graph (ns, e).
Enter(ns, e, s) ==
  /\ start' = s
  /\ distances' = InitDistances(ns, s)
  /\ heap' = <<<<0, s>>>>
  /\ visited' = {}
  /\ current' = None
  /\ current_distance' = 0
  /\ todo' = <<>>
  /\ error' = None
  /\ graph0' = [nodes |-> ns, edges |-> e]
  /\ pc' = "while"

Dijkstra(s) ==
  /\ pc = "idle"
  /\ Enter(nodes, edges, s)
  /\ last' = IF last.start = s THEN last ELSE NoCall
  /\ UNCHANGED graphVars
  /\ UNCHANGED otherTaskVars

\* Mutant of IsVisited: the test of line 62 is dropped.
IsVisited_never(v, vis) == FALSE

\* line 62: if current in visited
IsVisited(v, vis) == v \in vis

\* Mutant of Unvisited: the test of line 69 is dropped.
Unvisited_dropped(neighbor, vis) == TRUE

\* line 69: if neighbor not in visited
Unvisited(neighbor, vis) == neighbor \notin vis

\* Mutant of Improves: the comparison of line 73 is reversed.
Improves_reversed(distance, old) == old # Infinity /\ distance > old[1]

\* Mutant of Improves: the comparison of line 73 is dropped.
Improves_dropped(distance, old) == TRUE

\* line 73: if distance < distances[neighbor]
Improves(distance, old) == Less(distance, old)

\* After one item of the for loop: next item, or back to the while test.
AfterItem(rest) == IF rest = <<>> THEN "while" ELSE "for"

\* line 58 with an empty heap, line 77: return distances
LoopExit ==
  /\ pc = "while"
  /\ heap = <<>>
  /\ pc' = "done"
  /\ UNCHANGED <<graphVars, localVars, last>>
  /\ UNCHANGED otherTaskVars

\* lines 60-63: the popped vertex is already visited, continue
PopStale ==
  /\ pc = "while"
  /\ heap # <<>>
  /\ LET p == heappop(heap) IN
       /\ IsVisited(p.item[2], visited)
       /\ heap' = p.heap
       /\ current_distance' = p.item[1]
       /\ current' = p.item[2]
  /\ UNCHANGED <<graphVars, pc, start, distances, visited, todo, error, graph0,
                 last>>
  /\ UNCHANGED otherTaskVars

\* lines 60-68: pop an unvisited vertex, mark it, fetch its neighbours
PopVisit ==
  /\ pc = "while"
  /\ heap # <<>>
  /\ LET p == heappop(heap)
         g == get_neighbors(edges, p.item[2])
     IN
       /\ ~IsVisited(p.item[2], visited)
       /\ heap' = p.heap
       /\ current_distance' = p.item[1]
       /\ current' = p.item[2]
       /\ visited' = visited \cup {p.item[2]}
       /\ edges' = g.edges
       /\ todo' = g.items
       /\ pc' = AfterItem(g.items)
  /\ UNCHANGED <<nodes, numEdgeCalls, start, distances, error, graph0, last>>
  /\ UNCHANGED otherTaskVars

\* line 69 false: the neighbour is already visited
ForSkipVisited ==
  /\ pc = "for"
  /\ ~Unvisited(Head(todo)[1], visited)
  /\ todo' = Tail(todo)
  /\ pc' = AfterItem(Tail(todo))
  /\ UNCHANGED <<graphVars, last, start, distances, heap, visited, current,
                 current_distance, error, graph0>>
  /\ UNCHANGED otherTaskVars

\* line 73: distances[neighbor] on a vertex that is not a key of distances
ForKeyError ==
  /\ pc = "for"
  /\ Unvisited(Head(todo)[1], visited)
  /\ Head(todo)[1] \notin DOMAIN distances
  /\ error' = "KeyError"
  /\ pc' = "error"
  /\ UNCHANGED <<graphVars, last, start, distances, heap, visited, current,
                 current_distance, todo, graph0>>
  /\ UNCHANGED otherTaskVars

\* lines 70-75: a shorter path was found
ForRelax ==
  /\ pc = "for"
  /\ LET neighbor == Head(todo)[1]
         distance == current_distance + Head(todo)[2]
     IN
       /\ Unvisited(neighbor, visited)
       /\ neighbor \in DOMAIN distances
       /\ Improves(distance, distances[neighbor])
       /\ distances' = [distances EXCEPT ![neighbor] = Fin(distance)]
       /\ heap' = heappush(heap, <<distance, neighbor>>)
  /\ todo' = Tail(todo)
  /\ pc' = AfterItem(Tail(todo))
  /\ UNCHANGED <<graphVars, last, start, visited, current, current_distance,
                 error, graph0>>
  /\ UNCHANGED otherTaskVars

\* lines 70-73: the candidate distance is not smaller
ForNoImprove ==
  /\ pc = "for"
  /\ LET neighbor == Head(todo)[1]
         distance == current_distance + Head(todo)[2]
     IN
       /\ Unvisited(neighbor, visited)
       /\ neighbor \in DOMAIN distances
       /\ ~Improves(distance, distances[neighbor])
  /\ todo' = Tail(todo)
  /\ pc' = AfterItem(Tail(todo))
  /\ UNCHANGED <<graphVars, last, start, distances, heap, visited, current,
                 current_distance, error, graph0>>
  /\ UNCHANGED otherTaskVars

\* The call is over (table returned or exception raised): locals are dropped;
\* rec is what the caller keeps of the call.
Leave(rec) ==
  /\ pc \in {"done", "error"}
  /\ pc' = "idle"
  /\ start' = None
  /\ distances' = EmptyDict
  /\ heap' = <<>>
  /\ visited' = {}
  /\ current' = None
  /\ current_distance' = 0
  /\ todo' = <<>>
  /\ error' = None
  /\ graph0' = [nodes |-> {}, edges |-> EmptyDict]
  /\ last' = rec
  /\ UNCHANGED graphVars
  /\ UNCHANGED otherTaskVars

\* The caller drops the result.
Finish == Leave(NoCall)

\* The caller keeps the start, the outcome and the returned table.
FinishKeep ==
  Leave([start |-> start, outcome |-> pc,
         table |-> IF pc = "done" THEN distances ELSE EmptyDict])

\* --------------------------------------------------------------------- main
MainVertices == <<"A", "B", "C", "D", "E">>
MainEdges == << <<"A", "B", 4>>, <<"A", "C", 2>>,
                <<"B", "C", 1>>, <<"B", "D", 5>>,
                <<"C", "D", 8>>, <<"C", "E", 10>>,
                <<"D", "E", 2>> >>

RECURSIVE AddEdges(_, _)
AddEdges(e, list) ==
  IF list = <<>> THEN e
  ELSE AddEdges(add_edge(e, Head(list)[1], Head(list)[2], Head(list)[3]),
                Tail(list))

\* main(): a fresh Graph, add_node and add_edge over the lists, dijkstra("A")
Main ==
  /\ pc = "idle"
  /\ nodes' = {MainVertices[i] : i \in 1..Len(MainVertices)}
  /\ edges' = AddEdges(EmptyDict, MainEdges)
  /\ numEdgeCalls' = Len(MainEdges)
  /\ last' = NoCall
  /\ Enter(nodes', edges', "A")
  /\ UNCHANGED otherTaskVars

Next ==
  \/ \E n \in InputVertices : AddNode(n)
  \/ \E u \in InputVertices, v \in InputVertices, w \in Weights : AddEdge(u, v, w)
  \/ \E s \in InputVertices : Dijkstra(s)
  \/ Main
  \/ LoopExit
  \/ PopStale
  \/ PopVisit
  \/ ForSkipVisited
  \/ ForKeyError
  \/ ForRelax
  \/ ForNoImprove
  \/ Finish

Spec == Init /\ [][Next]_vars

\* A caller that uses the Graph class alone: it builds the graph and reads
\* neighbour mappings. The mapping returned is the record self.edges[node]
\* itself, which the defaultdict creates when it is missing; the caller
\* keeps nothing else of the call.
Lookup(v) ==
  /\ pc = "idle"
  /\ edges' = get_neighbors(edges, v).edges
  /\ UNCHANGED <<nodes, numEdgeCalls, pc, localVars, last>>
  /\ UNCHANGED otherTaskVars

NextGraph ==
  \/ \E n \in InputVertices : AddNode(n)
  \/ \E u \in InputVertices, v \in InputVertices, w \in Weights : AddEdge(u, v, w)
  \/ \E v \in InputVertices : Lookup(v)

SpecGraph == Init /\ [][NextGraph]_vars

\* The same program with a caller that keeps each result to compare it with
\* the result of the next call.
NextRepeat ==
  \/ \E n \in InputVertices : AddNode(n)
  \/ \E u \in InputVertices, v \in InputVertices, w \in Weights :
        numEdgeCalls < MaxRepeatEdgeCalls /\ AddEdge(u, v, w)
  \/ \E s \in InputVertices : Dijkstra(s)
  \/ Main
  \/ LoopExit
  \/ PopStale
  \/ PopVisit
  \/ ForSkipVisited
  \/ ForKeyError
  \/ ForRelax
  \/ ForNoImprove
  \/ FinishKeep

SpecRepeat == Init /\ [][NextRepeat]_vars

TypeOK ==
  /\ nodes \subseteq Vertices
  /\ DOMAIN edges \subseteq Vertices
  /\ pc \in {"idle", "while", "for", "done", "error"}
  /\ visited \subseteq Vertices
  /\ DOMAIN distances \subseteq Vertices

\* ------------------------------------------------- reference definitions
\* The <<neighbour, weight>> items of u's adjacency record.
Adj(e, u) == IF u \in DOMAIN e THEN {e[u][i] : i \in 1..Len(e[u])} ELSE {}

NonNegative(e) == \A u \in DOMAIN e : \A p \in Adj(e, u) : p[2] >= 0

RECURSIVE ReachFrom(_, _)
ReachFrom(e, S) ==
  LET N == S \cup {p[1] : p \in UNION {Adj(e, u) : u \in S}}
  IN  IF N = S THEN S ELSE ReachFrom(e, N)

\* The vertices connected to s by some path.
Reachable(e, s) == ReachFrom(e, {s})

\* <<v, c>> for every walk of at most k edges from s to v with weight sum c.
RECURSIVE WalkCosts(_, _, _)
WalkCosts(e, s, k) ==
  IF k = 0 THEN {<<s, 0>>}
  ELSE LET P == WalkCosts(e, s, k - 1)
       IN  P \cup UNION {{<<q[1], p[2] + q[2]>> : q \in Adj(e, p[1])} : p \in P}

\* Minimum weight sum over the paths from s to a reachable v (a shortest
\* path under non-negative weights has fewer edges than there are vertices).
MinDist(e, s, v) ==
  LET C == {p[2] : p \in {q \in WalkCosts(e, s, Cardinality(Vertices) - 1) : q[1] = v}}
  IN  CHOOSE c \in C : \A d \in C : c <= d

Returned == pc = "done"
Ended == pc \in {"done", "error"}
Running == pc \in {"while", "for"}

\* ------------------------------------------------------------------ claims

\* The graph is the one main() builds.
IsMainGraph ==
  /\ nodes = {MainVertices[i] : i \in 1..Len(MainVertices)}
  /\ edges = AddEdges(EmptyDict, MainEdges)

\* The distances the demo scenario is expected to print for start "A".
MainTable ==
  [v \in Vertices |->
     CASE v = "A" -> Fin(0) [] v = "B" -> Fin(3) [] v = "C" -> Fin(2)
       [] v = "D" -> Fin(8) [] v = "E" -> Fin(10)]

\* C1: for every graph with only non-negative weights and every registered
\* start, dijkstra returns a table that maps each vertex reachable from start
\* to the minimum weight sum over the paths from start to it; on main()'s
\* graph from "A" the table is A=0, B=3, C=2, D=8, E=10.
C1_ShortestDistances ==
  (Ended /\ NonNegative(edges) /\ start \in nodes) =>
     /\ Returned
     /\ \A v \in Reachable(edges, start) :
           /\ v \in DOMAIN distances
           /\ distances[v] = Fin(MinDist(edges, start, v))
     /\ (IsMainGraph /\ start = "A") => distances = MainTable

\* Whenever dijkstra returns a table on a graph with non-negative weights, the
\* table is right on every reachable vertex (the part of C1 the code keeps).
ReturnedTableCorrect ==
  (Returned /\ NonNegative(edges)) =>
     /\ \A v \in Reachable(edges, start) :
           /\ v \in DOMAIN distances
           /\ distances[v] = Fin(MinDist(edges, start, v))
     /\ (IsMainGraph /\ start = "A") => distances = MainTable

\* C2: a dijkstra call whose start is not in graph.nodes ends with a
\* VertexNotFound error and returns no table.
C2_VertexNotFound ==
  (Ended /\ start \notin nodes) => (pc = "error" /\ error = "VertexNotFound")

\* C3: add_edge with a negative weight raises InvalidWeight and leaves edges
\* and nodes unchanged.
C3_InvalidWeightRejected ==
  [][\A u \in InputVertices, v \in InputVertices, w \in Weights :
        (w < 0 /\ AddEdge(u, v, w)) =>
           (edges' = edges /\ nodes' = nodes /\ error' = "InvalidWeight")]_vars

\* The endpoints of the edges of e.
Endpoints(e) == {u \in DOMAIN e : e[u] # <<>>}

\* C4: every endpoint of every edge is a registered vertex, and a dijkstra
\* call from a registered start returns a table that covers the endpoints.
C4_EndpointsRegistered ==
  /\ Endpoints(edges) \subseteq nodes
  /\ (Ended /\ start \in nodes) =>
        (Returned /\ Endpoints(edges) \subseteq DOMAIN distances)

\* C5: the adjacency is symmetric: whenever edges[u][v] = w exists,
\* edges[v][u] exists and equals w.
C5_Symmetric ==
  \A u \in DOMAIN edges : \A p \in Adj(edges, u) :
     /\ p[1] \in DOMAIN edges
     /\ <<u, p[2]>> \in Adj(edges, p[1])

\* The undirected edges of e, as sets of endpoints.
EdgeSet(e) == UNION {{{u, p[1]} : p \in Adj(e, u)} : u \in DOMAIN e}

\* C5 witness: a graph with a self-loop and an edge between two vertices in
\* which some add_edge call has overwritten an existing edge.
C5_Witness ==
  /\ numEdgeCalls > Cardinality(EdgeSet(edges))
  /\ \E x \in EdgeSet(edges) : Cardinality(x) = 1
  /\ \E x \in EdgeSet(edges) : Cardinality(x) = 2

\* C6: a dijkstra call leaves graph.nodes and graph.edges, key set included,
\* as they were when it was called.
C6_GraphUnchanged ==
  Returned =>
     /\ nodes = graph0.nodes
     /\ DOMAIN edges = DOMAIN graph0.edges
     /\ edges = graph0.edges

\* C7: in a returned table every registered vertex with no path from start
\* has distance +infinity, and every reachable vertex has a finite distance.
C7_UnreachableInfinite ==
  Returned =>
     /\ \A v \in nodes \ Reachable(edges, start) : distances[v] = Infinity
     /\ \A v \in Reachable(edges, start) :
           v \in DOMAIN distances /\ distances[v] # Infinity

\* C7 witness: a returned table with an unreachable registered vertex and a
\* reachable vertex other than start.
C7_Witness ==
  /\ Returned
  /\ \E v \in nodes : distances[v] = Infinity
  /\ \E v \in Reachable(edges, start) : v # start

\* C8: during a run no entry of distances increases: a step of the loop
\* leaves an entry alone or replaces it by a strictly smaller finite value.
C8_Monotonic ==
  [][Running =>
       \A v \in DOMAIN distances :
          \/ distances'[v] = distances[v]
          \/ distances'[v] # Infinity /\ Less(distances'[v][1], distances[v])]_vars

\* C8 witness: a finite distance has been replaced by a smaller one, so the
\* queue holds a stale entry above the vertex's current distance.
C8_Witness ==
  /\ Running
  /\ \E i \in 1..Len(heap) :
        /\ heap[i][2] \notin visited
        /\ heap[i][1] > distances[heap[i][2]][1]

\* C9: once a vertex is in visited, its entry in distances is never written.
C9_VisitedFrozen ==
  [][Running => \A v \in visited : distances'[v] = distances[v]]_vars

\* C9 witness: the for loop is at a visited neighbour whose candidate
\* distance is below its recorded distance.
C9_Witness ==
  /\ pc = "for"
  /\ Head(todo)[1] \in visited
  /\ Less(current_distance + Head(todo)[2], distances[Head(todo)[1]])

\* C10: for non-negative weights and a registered start the main loop ends
\* with an empty queue and visited is the set of vertices reachable from start.
C10_Termination ==
  (Ended /\ NonNegative(edges) /\ start \in nodes) =>
     /\ Returned
     /\ heap = <<>>
     /\ visited = Reachable(edges, start)

\* C11: a dijkstra call that follows a finished call with the same start,
\* with no add_node or add_edge in between, ends the same way and, when it
\* returns, returns the same table (same keys, same values).
C11_Idempotent ==
  (Ended /\ last.start = start) =>
     /\ pc = last.outcome
     /\ Returned => distances = last.table

\* C11 witness: the second of two such calls has returned a table with a
\* finite and an infinite entry besides start, after the first call inserted
\* a key into graph.edges.
C11_Witness ==
  /\ Returned
  /\ last.start = start
  /\ \E v \in DOMAIN distances : distances[v] = Infinity
  /\ \E v \in DOMAIN distances : v # start /\ distances[v] # Infinity
  /\ \E v \in DOMAIN edges : edges[v] = <<>>

\* The <<neighbour, weight>> pairs add_edge has recorded for v on the side of
\* the neighbours: u is a neighbour of v with weight w when edges[u][v] = w.
ExpectedNeighbors(e, v) ==
  UNION {{<<u, p[2]>> : p \in {q \in Adj(e, u) : q[1] = v}} : u \in DOMAIN e}

\* C12: get_neighbors(v) never raises; for every vertex it returns a mapping
\* (one item per neighbour) that holds exactly the neighbours and weights set
\* by add_edge, which is the empty mapping for a vertex with no edges; a
\* lookup hands over that mapping and raises nothing.
C12_GetNeighbors ==
  /\ [](\A v \in Vertices :
          LET items == get_neighbors(edges, v).items IN
            /\ {items[i] : i \in 1..Len(items)} = ExpectedNeighbors(edges, v)
            /\ \A i, j \in 1..Len(items) : items[i][1] = items[j][1] => i = j
            /\ (ExpectedNeighbors(edges, v) = {}) => items = <<>>)
  /\ [][\A v \in InputVertices :
          Lookup(v) =>
             /\ v \in DOMAIN edges'
             /\ edges'[v] = get_neighbors(edges, v).items
             /\ {edges'[v][i] : i \in 1..Len(edges'[v])} = ExpectedNeighbors(edges, v)
             /\ error' = None /\ pc' # "error"]_vars

\* C12 witness: the neighbours of a vertex with no edges have been looked up
\* and the empty mapping came back, in a graph where another vertex has two
\* neighbours.
C12_Witness ==
  /\ pc = "idle"
  /\ \E v \in DOMAIN edges : edges[v] = <<>>
  /\ \E v \in DOMAIN edges : Len(edges[v]) >= 2

\* C15: popping an entry whose vertex is already visited only removes that
\* entry: distances, visited and the graph are unchanged, nothing is pushed,
\* and control is back at the while test without a scan of the neighbours.
C15_StalePopIsSkip ==
  [][(pc = "while" /\ heap # <<>> /\ heappop(heap).item[2] \in visited) =>
       /\ heap' = heappop(heap).heap
       /\ Len(heap') = Len(heap) - 1
       /\ distances' = distances
       /\ visited' = visited
       /\ edges' = edges
       /\ todo' = todo
       /\ pc' = "while"]_vars

\* C15 witness: the entry just popped was stale: its vertex is visited and
\* its distance is above the recorded one.
C15_Witness ==
  /\ pc = "while"
  /\ current \in visited
  /\ current_distance > distances[current][1]

\* C16: every queue entry (d, v) has d >= distances[v]; every unvisited vertex
\* with a finite distance has the entry (distances[v], v) in the queue; and an
\* entry popped for an unvisited vertex carries that vertex's current distance.
C16_QueueMatchesDistances ==
  /\ [](/\ \A i \in 1..Len(heap) :
             /\ heap[i][2] \in DOMAIN distances
             /\ distances[heap[i][2]] # Infinity
             /\ heap[i][1] >= distances[heap[i][2]][1]
        /\ \A v \in DOMAIN distances \ visited :
             distances[v] # Infinity =>
                \E i \in 1..Len(heap) : heap[i] = <<distances[v][1], v>>)
  /\ [][PopVisit => distances[current'] = Fin(current_distance')]_vars

\* C16 witness: a vertex has been visited through its current entry while an
\* older, larger entry for it is still in the queue.
C16_Witness ==
  /\ Running
  /\ current \in visited
  /\ distances[current] = Fin(current_distance)
  /\ \E i \in 1..Len(heap) :
        heap[i][2] = current /\ heap[i][1] > current_distance

\* C17: with non-negative weights a vertex is marked visited with a distance
\* that is at least the distance of every vertex visited before it, and the
\* distances of visited vertices stay as they are until the table is returned.
C17_VisitOrder ==
  [][(Running /\ NonNegative(edges)) =>
       /\ \A u \in visited : distances'[u] = distances[u]
       /\ PopVisit =>
            \A u \in visited : distances[u][1] <= distances'[current'][1]]_vars

\* C17 witness: a returned table on non-negative weights with three visited
\* vertices, two of them at different distances.
C17_Witness ==
  /\ Returned
  /\ NonNegative(edges)
  /\ Cardinality(visited) >= 3
  /\ \E u \in visited, v \in visited : distances[u] # distances[v]

\* ====================================================== task_6.py
\* dynamic_programming(items, budget).  food_items = list(items.items()) is a
\* sequence of [cost, calories] records; a dish is named by its position,
\* since the keys of the items dict are distinct.

Max(a, b) == IF a >= b THEN a ELSE b

\* Mutant of CellValue: the dish is tried only when cost < j.
CellValue_strict(prev, j, cost, calories) ==
  IF cost < j THEN Max(prev[j], prev[j - cost] + calories) ELSE prev[j]

\* lines 84-88: the value of dp[i][j] from row i-1
CellValue(prev, j, cost, calories) ==
  IF cost <= j THEN Max(prev[j], prev[j - cost] + calories) ELSE prev[j]

\* line 100: if dp[i][curr_budget] != dp[i-1][curr_budget]
Taken(table, k, c) == table[k][c] # table[k - 1][c]

\* selected_items.reverse()
Reverse(q) == [k \in 1..Len(q) |-> q[Len(q) + 1 - k]]

ItemSet == [cost : 1..MaxCost, calories : 0..MaxCalories]

\* Sequences over S of length at most n.
SeqUpTo(S, n) == UNION {[1..k -> S] : k \in 0..n}

\* lines 71-75: the arguments, n = len(food_items), dp filled with zeros
InitDP ==
  /\ Task3Init
  /\ Task1Off
  /\ Task4Off
  /\ food_items \in SeqUpTo(ItemSet, MaxItems)
  /\ budget \in 0..MaxBudget
  /\ dp = [k \in 0..Len(food_items) |-> [j \in 0..budget |-> 0]]
  /\ dp_i = 1
  /\ selected_items = <<>>
  /\ total_cost = 0
  /\ curr_budget = 0
  /\ total_calories = 0
  /\ dpPc = "fill"

\* lines 78-88: one pass of the outer loop fills row i
FillRow ==
  /\ dpPc = "fill"
  /\ dp_i <= Len(food_items)
  /\ dp' = [dp EXCEPT ![dp_i] =
              [j \in 0..budget |->
                 CellValue(dp[dp_i - 1], j, food_items[dp_i].cost,
                           food_items[dp_i].calories)]]
  /\ dp_i' = dp_i + 1
  /\ UNCHANGED <<food_items, budget, selected_items, total_cost, curr_budget,
                 total_calories, dpPc, task3Vars, task1Vars, task4Vars>>

\* lines 91-95: the table is full, start the reconstruction at i = n
BeginReconstruct ==
  /\ dpPc = "fill"
  /\ dp_i > Len(food_items)
  /\ selected_items' = <<>>
  /\ total_cost' = 0
  /\ curr_budget' = budget
  /\ dp_i' = Len(food_items)
  /\ dpPc' = "reconstruct"
  /\ UNCHANGED <<food_items, budget, dp, total_calories, task3Vars, task1Vars, task4Vars>>

\* lines 96-103: the value changed, dish i was taken
TakeItem ==
  /\ dpPc = "reconstruct"
  /\ dp_i >= 1
  /\ Taken(dp, dp_i, curr_budget)
  /\ selected_items' = Append(selected_items, dp_i)
  /\ total_cost' = total_cost + food_items[dp_i].cost
  /\ curr_budget' = curr_budget - food_items[dp_i].cost
  /\ dp_i' = dp_i - 1
  /\ UNCHANGED <<food_items, budget, dp, total_calories, dpPc, task3Vars, task1Vars, task4Vars>>

\* lines 96-100: the value did not change, dish i is left out
SkipItem ==
  /\ dpPc = "reconstruct"
  /\ dp_i >= 1
  /\ ~Taken(dp, dp_i, curr_budget)
  /\ dp_i' = dp_i - 1
  /\ UNCHANGED <<food_items, budget, dp, selected_items, total_cost,
                 curr_budget, total_calories, dpPc, task3Vars, task1Vars, task4Vars>>

\* lines 105-108: reverse the selection, read the optimum, return
ReturnDP ==
  /\ dpPc = "reconstruct"
  /\ dp_i = 0
  /\ selected_items' = Reverse(selected_items)
  /\ total_calories' = dp[Len(food_items)][budget]
  /\ dpPc' = "done"
  /\ UNCHANGED <<food_items, budget, dp, dp_i, total_cost, curr_budget,
                 task3Vars, task1Vars, task4Vars>>

NextDP ==
  \/ FillRow
  \/ BeginReconstruct
  \/ TakeItem
  \/ SkipItem
  \/ ReturnDP

SpecDP == InitDP /\ [][NextDP]_vars

RECURSIVE SumOver(_, _)
\* Sum of f[k] for k in S.
SumOver(f, S) ==
  IF S = {} THEN 0
  ELSE LET k == CHOOSE x \in S : TRUE IN f[k] + SumOver(f, S \ {k})

CostOf(S) == SumOver([k \in 1..Len(food_items) |-> food_items[k].cost], S)
CaloriesOf(S) == SumOver([k \in 1..Len(food_items) |-> food_items[k].calories], S)

\* The dishes of the returned selection.
Selected == {selected_items[k] : k \in 1..Len(selected_items)}

\* C13: the returned selection lists distinct dishes of items; its cost sum is
\* the returned total_cost and is at most budget; its calorie sum is the
\* returned total_calories, which is the maximum calorie sum over all subsets
\* of the dishes whose cost sum is at most budget.
C13_KnapsackOptimal ==
  dpPc = "done" =>
     /\ Selected \subseteq 1..Len(food_items)
     /\ Cardinality(Selected) = Len(selected_items)
     /\ CostOf(Selected) = total_cost
     /\ total_cost <= budget
     /\ CaloriesOf(Selected) = total_calories
     /\ \A S \in SUBSET (1..Len(food_items)) :
           CostOf(S) <= budget => CaloriesOf(S) <= total_calories

\* C13 witness: a returned selection of two dishes out of three, where the
\* budget does not cover all three.
C13_Witness ==
  /\ dpPc = "done"
  /\ Len(food_items) = 3
  /\ Len(selected_items) = 2
  /\ CostOf(1..3) > budget

\* ====================================================== task_1.py
\* LinkedList.merge_sorted_lists(list1, list2)

IsSorted(q) == \A k \in 1..(Len(q) - 1) : q[k] <= q[k + 1]

\* Node(data): a new node with next = None, at the next free identity
NewNode(m, data) == Append(m, [data |-> data, next |-> 0])

\* insert_at_end over the elements of q, the first node getting identity
\* base + 1: the nodes of a list that holds q
Chain(q, base) ==
  [k \in 1..Len(q) |->
     [data |-> q[k], next |-> IF k = Len(q) THEN 0 ELSE base + k + 1]]

\* line 128: two sorted lists, and merged_list = LinkedList()
InitMerge ==
  /\ Task3Init
  /\ Task6Off
  /\ Task4Off
  /\ input1 \in {q \in SeqUpTo(1..MaxValue, MaxListLen) : IsSorted(q)}
  /\ input2 \in {q \in SeqUpTo(1..MaxValue, MaxListLen) : IsSorted(q)}
  /\ mem = Chain(input1, 0) \o Chain(input2, Len(input1))
  /\ head1 = IF input1 = <<>> THEN 0 ELSE 1
  /\ head2 = IF input2 = <<>> THEN 0 ELSE Len(input1) + 1
  /\ merged_head = 0
  /\ current1 = 0
  /\ current2 = 0
  /\ current_merged = 0
  /\ result = None
  /\ mergePc = "start"

\* lines 131-132: if not list1.head: return list2
ReturnList2 ==
  /\ mergePc = "start"
  /\ head1 = 0
  /\ result' = "list2"
  /\ mergePc' = "done"
  /\ UNCHANGED <<mem, head1, head2, merged_head, current1, current2,
                 current_merged, input1, input2, task3Vars, task6Vars, task4Vars>>

\* lines 133-134: if not list2.head: return list1
ReturnList1 ==
  /\ mergePc = "start"
  /\ head1 # 0
  /\ head2 = 0
  /\ result' = "list1"
  /\ mergePc' = "done"
  /\ UNCHANGED <<mem, head1, head2, merged_head, current1, current2,
                 current_merged, input1, input2, task3Vars, task6Vars, task4Vars>>

\* line 141 and line 152: current1.data <= current2.data
TakeFirst(d1, d2) == d1 <= d2

\* lines 137-148: the first node of merged_list
FirstNode ==
  /\ mergePc = "start"
  /\ head1 # 0
  /\ head2 # 0
  /\ LET from1 == TakeFirst(mem[head1].data, mem[head2].data)
         data == IF from1 THEN mem[head1].data ELSE mem[head2].data
     IN
       /\ mem' = NewNode(mem, data)
       /\ merged_head' = Len(mem) + 1
       /\ current_merged' = Len(mem) + 1
       /\ current1' = IF from1 THEN mem[head1].next ELSE head1
       /\ current2' = IF from1 THEN head2 ELSE mem[head2].next
  /\ mergePc' = "merge"
  /\ UNCHANGED <<head1, head2, result, input1, input2, task3Vars, task6Vars, task4Vars>>

\* current_merged.next = Node(data); current_merged = current_merged.next
AppendNode(m, tail, data) ==
  [NewNode(m, data) EXCEPT ![tail].next = Len(m) + 1]

\* lines 151-158: both lists have elements left
MergeStep ==
  /\ mergePc = "merge"
  /\ current1 # 0
  /\ current2 # 0
  /\ LET from1 == TakeFirst(mem[current1].data, mem[current2].data)
         data == IF from1 THEN mem[current1].data ELSE mem[current2].data
     IN
       /\ mem' = AppendNode(mem, current_merged, data)
       /\ current_merged' = Len(mem) + 1
       /\ current1' = IF from1 THEN mem[current1].next ELSE current1
       /\ current2' = IF from1 THEN current2 ELSE mem[current2].next
  /\ UNCHANGED <<head1, head2, merged_head, result, mergePc, input1, input2,
                 task3Vars, task6Vars, task4Vars>>

\* lines 161-164: the rest of list1
Drain1 ==
  /\ mergePc = "merge"
  /\ current1 # 0
  /\ current2 = 0
  /\ mem' = AppendNode(mem, current_merged, mem[current1].data)
  /\ current_merged' = Len(mem) + 1
  /\ current1' = mem[current1].next
  /\ UNCHANGED <<head1, head2, merged_head, current2, result, mergePc, input1,
                 input2, task3Vars, task6Vars, task4Vars>>

\* lines 167-170: the rest of list2
Drain2 ==
  /\ mergePc = "merge"
  /\ current1 = 0
  /\ current2 # 0
  /\ mem' = AppendNode(mem, current_merged, mem[current2].data)
  /\ current_merged' = Len(mem) + 1
  /\ current2' = mem[current2].next
  /\ UNCHANGED <<head1, head2, merged_head, current1, result, mergePc, input1,
                 input2, task3Vars, task6Vars, task4Vars>>

\* line 172: return merged_list
ReturnMerged ==
  /\ mergePc = "merge"
  /\ current1 = 0
  /\ current2 = 0
  /\ result' = "merged_list"
  /\ mergePc' = "done"
  /\ UNCHANGED <<mem, head1, head2, merged_head, current1, current2,
                 current_merged, input1, input2, task3Vars, task6Vars, task4Vars>>

NextMerge ==
  \/ ReturnList2
  \/ ReturnList1
  \/ FirstNode
  \/ MergeStep
  \/ Drain1
  \/ Drain2
  \/ ReturnMerged

SpecMerge == InitMerge /\ [][NextMerge]_vars

RECURSIVE Content(_, _)
\* The elements of the list that starts at node h.
Content(m, h) == IF h = 0 THEN <<>> ELSE <<m[h].data>> \o Content(m, m[h].next)

RECURSIVE NodesFrom(_, _)
\* The nodes of the list that starts at node h.
NodesFrom(m, h) == IF h = 0 THEN {} ELSE {h} \cup NodesFrom(m, m[h].next)

\* The head of the returned list.
ResultHead ==
  CASE result = "list1" -> head1
    [] result = "list2" -> head2
    [] result = "merged_list" -> merged_head

Count(q, x) == Cardinality({k \in 1..Len(q) : q[k] = x})

\* The returned list is sorted, holds the elements of both inputs, and the
\* inputs hold what they held.
MergedContent ==
  /\ IsSorted(Content(mem, ResultHead))
  /\ \A x \in 1..MaxValue :
        Count(Content(mem, ResultHead), x) = Count(input1, x) + Count(input2, x)
  /\ Content(mem, head1) = input1
  /\ Content(mem, head2) = input2

\* C14: for any two sorted lists, empty ones included, the call returns a new
\* LinkedList that is neither input and shares no node with them, is sorted
\* and holds the multiset union of the inputs, and the inputs are unchanged.
C14_MergeReturnsNewList ==
  mergePc = "done" =>
     /\ result \notin {"list1", "list2"}
     /\ NodesFrom(mem, ResultHead) \cap
          (NodesFrom(mem, head1) \cup NodesFrom(mem, head2)) = {}
     /\ MergedContent

\* When both inputs have elements the returned list is new; in every case
\* its content is right (the part of C14 the code keeps).
MergeOfNonEmpty ==
  mergePc = "done" =>
     /\ MergedContent
     /\ (input1 # <<>> /\ input2 # <<>>) =>
           /\ result = "merged_list"
           /\ NodesFrom(mem, ResultHead) \cap
                (NodesFrom(mem, head1) \cup NodesFrom(mem, head2)) = {}

\* ====================================================== task_4.py
\* BinaryHeap.  Indices are those of the Python list, from 0; At(h, i) is h[i].

At(h, i) == h[i + 1]

\* BinaryHeap.parent: (i - 1) // 2
parent(i) == (i - 1) \div 2

\* self.heap[i], self.heap[parent] = self.heap[parent], self.heap[i]
Swap(h, i, j) ==
  [k \in 1..Len(h) |->
     IF k = i + 1 THEN h[j + 1] ELSE IF k = j + 1 THEN h[i + 1] ELSE h[k]]

\* Mutant of heapify_up: one swap, without the recursive call.
heapify_up_once(h, type, i) ==
  IF type = "min"
    THEN IF i > 0 /\ At(h, i) < At(h, parent(i))
           THEN Swap(h, i, parent(i)) ELSE h
    ELSE IF i > 0 /\ At(h, i) > At(h, parent(i))
           THEN Swap(h, i, parent(i)) ELSE h

RECURSIVE heapify_up(_, _, _)
\* BinaryHeap._heapify_up
heapify_up(h, type, i) ==
  IF type = "min"
    THEN IF i > 0 /\ At(h, i) < At(h, parent(i))
           THEN heapify_up(Swap(h, i, parent(i)), type, parent(i)) ELSE h
    ELSE IF i > 0 /\ At(h, i) > At(h, parent(i))
           THEN heapify_up(Swap(h, i, parent(i)), type, parent(i)) ELSE h

\* create_node in create_tree_representation: the colour of the node of index i
NodeColor(h, type, i) ==
  IF i = 0 THEN "lightgreen"
  ELSE IF type = "min"
    THEN IF i > 0 /\ At(h, i) < At(h, parent(i)) THEN "red" ELSE "skyblue"
    ELSE IF i > 0 /\ At(h, i) > At(h, parent(i)) THEN "red" ELSE "skyblue"

\* BinaryHeap.__init__: an empty heap of either type
InitHeap ==
  /\ Task3Init
  /\ Task6Off
  /\ Task1Off
  /\ bin_heap = <<>>
  /\ heap_type \in {"min", "max"}
  /\ inserted = [k \in 1..MaxKey |-> 0]

\* BinaryHeap.insert: append the key, then _heapify_up from the last index
Insert(key) ==
  /\ heap_type # "off"
  /\ Len(bin_heap) < MaxHeapLen
  /\ bin_heap' = heapify_up(Append(bin_heap, key), heap_type, Len(bin_heap))
  /\ inserted' = [inserted EXCEPT ![key] = @ + 1]
  /\ UNCHANGED <<heap_type, task3Vars, task6Vars, task1Vars>>

NextHeap == \E key \in 1..MaxKey : Insert(key)

SpecHeap == InitHeap /\ [][NextHeap]_vars

\* C18: after any sequence of insert calls on an empty heap, every index
\* i > 0 satisfies heap[parent(i)] <= heap[i] in a "min" heap and
\* heap[parent(i)] >= heap[i] in a "max" heap, create_tree_representation
\* colours no node red, and the array holds each key as many times as it
\* was inserted.
C18_HeapOrder ==
  heap_type # "off" =>
     /\ \A i \in 1..(Len(bin_heap) - 1) :
           /\ heap_type = "min" => At(bin_heap, parent(i)) <= At(bin_heap, i)
           /\ heap_type = "max" => At(bin_heap, parent(i)) >= At(bin_heap, i)
     /\ \A i \in 0..(Len(bin_heap) - 1) :
           NodeColor(bin_heap, heap_type, i) # "red"
     /\ \A k \in 1..MaxKey : Count(bin_heap, k) = inserted[k]

\* C18 witness: a "min" heap of four or more keys that holds every key and
\* whose array is not in ascending order.
C18_Witness ==
  /\ heap_type = "min"
  /\ Len(bin_heap) >= 4
  /\ \A k \in 1..MaxKey : inserted[k] >= 1
  /\ ~IsSorted(bin_heap)

====
